---- MODULE Spec2Model ----
(***************************************************************************)
(* A model of quantum_key_distribution.py: photon and entangled-qubit      *)
(* polarization states, the polarizer, the observer with its recording,    *)
(* and the correlation / eavesdropping analysis.                           *)
(*                                                                         *)
(* Angles are integers in units of pi/8, so the E91 basis vocabulary       *)
(* [i*pi/8 for i in range(0, 4)] is 0..3 and pi/2 is 4.  For these values   *)
(* the float subtraction and the == of correlation_test are exact, so the  *)
(* integer model loses nothing.  Probabilities are integers in units of    *)
(* 1e-5 (the precision single_photon.measured rounds to); correlations are *)
(* integers in units of 1e-3, truncated.  A Bernoulli draw is a            *)
(* nondeterministic choice over the outcomes of nonzero probability.       *)
(* A raised Python exception is recorded by name in ret.err.               *)
(***************************************************************************)
EXTENDS Integers, Sequences, FiniteSets, TLC

-----------------------------------------------------------------------------
(* Bounds of the model *)

\* calls a free-running session makes on the classes
MaxCalls == 4
\* entangled qubits the measurement specification creates
MaxQubits == 1
\* measured() calls the measurement specification makes on one qubit
MaxMeasures == 3
\* length of the recordings the analysis specification is applied to
MaxLen == 2
\* largest module-level trial count N the analysis specification draws
MaxN == 2
\* length of the recordings the eavesdropping specification is applied to
MaxRun == 4
\* largest trial count of the E91 scenario script
MaxTrials == 2

-----------------------------------------------------------------------------
(* Program constants *)

\* math.pi/2 in units of pi/8
PiHalf == 4
\* 5 decimals: np.round(..., 5) in single_photon.measured
ProbDecimals == 5
ProbOne == 10^ProbDecimals
\* resolution of the modelled correlation values
CorrOne == 10^3
\* a float that is not a number
NaN == 0 - 10^6
\* an attribute that has not been set yet
NoAttr == 0 - 1

Observers == {"Alice", "Bob", "Eve"}
\* the observers a free-running session calls
FreeObservers == {"Alice", "Eve"}
\* the polarizer angles measured() is called with: 0 .. pi/2
BasisAngles == 0..PiHalf
\* the carrier frequency v; a second value tells a propagated v from a constant
Freqs == {"v", "w"}
\* self.angle_choices = [0]
DefaultChoices == <<0>>
\* polarizer_angle_choices = [i*math.pi/8 for i in range(0, 4)]
E91Choices == <<0, 1, 2, 3>>
\* random.choices([0, math.pi/2], k=1)[0]
PhotonAngles == {0, PiHalf}
\* the arguments set_angle_choices is called with
ChoiceLists == {<<>>, DefaultChoices, E91Choices}
\* the basis angles of the recordings the analysis specification draws for
\* Alice and for Bob; their differences are 0, pi/8, pi/4 and 3*pi/8, of both signs
AliceAngles == {0, 3}
BobAngles == {0, 2, 3}
\* the arguments eavesdropping_test is called with: [0], [pi/8, 3*pi/8], and []
TestAngleLists == {<<>>, <<0>>, <<1, 3>>}
\* the recordings the eavesdropping specification draws: Alice keeps the basis 0,
\* Bob uses 0 or pi/8, and the test is called with [], [0], [0, pi/8], [0, 0, pi/8]
RunAliceAngles == {0}
RunBobAngles == {0, 1}
RunTestAngleLists == {<<>>, <<0>>, <<0, 1>>, <<0, 0, 1>>}

-----------------------------------------------------------------------------
(* Arithmetic *)

Abs(x) == IF x < 0 THEN 0 - x ELSE x

RECURSIVE SumSeq(_)
SumSeq(s) == IF s = <<>> THEN 0 ELSE Head(s) + SumSeq(Tail(s))

RECURSIVE SqrtBetween(_, _, _)
\* the largest k in lo..hi with k*k <= m, by bisection
SqrtBetween(m, lo, hi) ==
    IF lo >= hi THEN lo
    ELSE LET mid == (lo + hi + 1) \div 2
         IN IF mid * mid <= m THEN SqrtBetween(m, mid, hi)
                              ELSE SqrtBetween(m, lo, mid - 1)

\* cos(k*pi/8)**2 rounded to 5 decimals; the float cos(pi/2)**2 is 3.7e-33, a
\* probability no binomial draw resolves from 0
Cos2(k) ==
    LET r == Abs(k) % 8
    IN CASE r = 0 -> ProbOne
         [] r = 1 -> 85355
         [] r = 2 -> 50000
         [] r = 3 -> 14645
         [] r = 4 -> 0
         [] r = 5 -> 14645
         [] r = 6 -> 50000
         [] r = 7 -> 85355

\* sin(k*pi/8)**2
Sin2(k) == ProbOne - Cos2(k)

\* math.cos(2*angle_diff) in units of 1e-3
Cos2x(k) ==
    LET r == Abs(k) % 8
    IN CASE r = 0 -> CorrOne
         [] r = 1 -> 707
         [] r = 2 -> 0
         [] r = 3 -> 0 - 707
         [] r = 4 -> 0 - CorrOne
         [] r = 5 -> 0 - 707
         [] r = 6 -> 0
         [] r = 7 -> 707

\* np.random.binomial(1, prob, 1): the outcomes of nonzero probability
Binomial(prob) ==
    IF prob = 0 THEN {0} ELSE IF prob = ProbOne THEN {1} ELSE {0, 1}

-----------------------------------------------------------------------------
VARIABLES
    objs,               \* the photon and qubit objects, in creation order
    LP_angle,           \* observer -> self.LP.angle
    angle_choices,      \* observer -> self.angle_choices
    angle_recording,    \* observer -> self.angle_recording
    result_recording,   \* observer -> self.result_recording
    N,                  \* the module-level trial count
    ret,                \* what the last call returned or raised
    observed,           \* observer -> observe calls completed since its last reset
    calls,              \* calls the session has made so far
    pc,                 \* the script's position
    trial               \* the script's loop index i

vars == <<objs, LP_angle, angle_choices, angle_recording, result_recording,
          N, ret, observed, calls, pc, trial>>

obsVars == <<LP_angle, angle_choices, angle_recording, result_recording, observed>>

-----------------------------------------------------------------------------
(* Objects *)

\* single_photon.__init__
single_photon(v, angle) ==
    [kind |-> "single_photon", v |-> v, angle |-> angle, status |-> "none",
     alpha |-> NoAttr, a |-> NoAttr, b |-> NoAttr, measures |-> 0]

\* entangled_qubit.__init__
entangled_qubit(v, angle) ==
    [kind |-> "entangled_qubit", v |-> v, angle |-> angle, status |-> "untouched",
     alpha |-> NoAttr, a |-> NoAttr, b |-> NoAttr, measures |-> 0]

\* a call op on who with argument arg returned value
Returned(op, who, arg, value) ==
    [op |-> op, who |-> who, arg |-> arg, err |-> "none", value |-> value]

\* a call op on who with argument arg raised err
Raised(op, who, arg, err) ==
    [op |-> op, who |-> who, arg |-> arg, err |-> err, value |-> NoAttr]

\* single_photon.measured(P), P the projector of a polarizer at polarizer_angle:
\* the photons it can become, each with the outcome in a
photon_measured(ph, polarizer_angle) ==
    LET prob == Cos2(polarizer_angle - ph.angle)
    IN { [ph EXCEPT !.a = out, !.measures = @ + 1] : out \in Binomial(prob) }

\* collapsed_prob without the case on the first outcome
collapsed_prob_ignoring_outcome(q, polarizer_angle) ==
    Cos2(polarizer_angle - q.alpha)

\* the probability the second (and any later) measurement passes
collapsed_prob(q, polarizer_angle) ==
    IF q.a = 1 THEN Cos2(polarizer_angle - q.alpha)
               ELSE Sin2(polarizer_angle - q.alpha)

\* qubit_measured with every measurement storing its angle in alpha
qubit_measured_storing_angle(q, polarizer_angle) ==
    IF q.status = "untouched"
    THEN { <<[q EXCEPT !.status = "collapsed", !.alpha = polarizer_angle,
                       !.a = out, !.measures = @ + 1], out>> :
           out \in Binomial(ProbOne \div 2) }
    ELSE { <<[q EXCEPT !.alpha = polarizer_angle, !.b = out, !.measures = @ + 1],
             out>> :
           out \in Binomial(collapsed_prob(q, polarizer_angle)) }

\* entangled_qubit.measured(polarizer_angle): the qubits it can become, paired
\* with the outcome returned
qubit_measured(q, polarizer_angle) ==
    IF q.status = "untouched"
    THEN { <<[q EXCEPT !.status = "collapsed", !.alpha = polarizer_angle,
                       !.a = out, !.measures = @ + 1], out>> :
           out \in Binomial(ProbOne \div 2) }
    ELSE { <<[q EXCEPT !.b = out, !.measures = @ + 1], out>> :
           out \in Binomial(collapsed_prob(q, polarizer_angle)) }

\* polarizer.measure(input): the (object after, int(output)) pairs
polarizer_measure(angle, input) ==
    IF input.kind = "single_photon"
    THEN { <<p, p.a>> : p \in photon_measured(input, angle) }
    ELSE qubit_measured(input, angle)

-----------------------------------------------------------------------------
(* Observer operations *)

\* observer.__init__ for every observer, and the module before any scenario
InitObservers ==
    /\ LP_angle = [o \in Observers |-> 0]
    /\ angle_choices = [o \in Observers |-> DefaultChoices]
    /\ angle_recording = [o \in Observers |-> <<>>]
    /\ result_recording = [o \in Observers |-> <<>>]
    /\ observed = [o \in Observers |-> 0]

\* observer.set_angle_choices
set_angle_choices(o, choices) ==
    /\ angle_choices' = [angle_choices EXCEPT ![o] = choices]
    /\ ret' = Returned("set_angle_choices", o, choices, NoAttr)
    /\ UNCHANGED <<objs, LP_angle, angle_recording, result_recording, observed>>

\* observe with record() reading the polarizer before set_angle has moved it
observe_recording_old_angle(o, id) ==
    IF angle_choices[o] = <<>>
    THEN /\ ret' = Raised("observe", o, id, "IndexError")
         /\ UNCHANGED <<objs, obsVars>>
    ELSE \E k \in 1..Len(angle_choices[o]) :
           LET angle == angle_choices[o][k]
           IN \E m \in polarizer_measure(angle, objs[id]) :
                /\ LP_angle' = [LP_angle EXCEPT ![o] = angle]
                /\ objs' = [objs EXCEPT ![id] = m[1]]
                /\ angle_recording' =
                       [angle_recording EXCEPT ![o] = Append(@, LP_angle[o])]
                /\ result_recording' =
                       [result_recording EXCEPT ![o] = Append(@, m[2])]
                /\ observed' = [observed EXCEPT ![o] = @ + 1]
                /\ ret' = Returned("observe", o, id, m[2])
                /\ UNCHANGED angle_choices

\* observer.observe(input), input the object objs[id]; record() is part of it
observe(o, id) ==
    IF angle_choices[o] = <<>>
    THEN \* random.choices raises on an empty population
         /\ ret' = Raised("observe", o, id, "IndexError")
         /\ UNCHANGED <<objs, obsVars>>
    ELSE \E k \in 1..Len(angle_choices[o]) :
           LET angle == angle_choices[o][k]
           IN \E m \in polarizer_measure(angle, objs[id]) :
                /\ LP_angle' = [LP_angle EXCEPT ![o] = angle]
                /\ objs' = [objs EXCEPT ![id] = m[1]]
                /\ angle_recording' =
                       [angle_recording EXCEPT ![o] = Append(@, angle)]
                /\ result_recording' =
                       [result_recording EXCEPT ![o] = Append(@, m[2])]
                /\ observed' = [observed EXCEPT ![o] = @ + 1]
                /\ ret' = Returned("observe", o, id, m[2])
                /\ UNCHANGED angle_choices

\* copied_photon with the two outcomes exchanged
copied_photon_flipped(o, input, result) ==
    IF result = 1 THEN single_photon(input.v, LP_angle[o] + PiHalf)
                  ELSE single_photon(input.v, LP_angle[o])

\* the photon observer.copy_photon(input, result) builds
copied_photon(o, input, result) ==
    IF result = 1 THEN single_photon(input.v, LP_angle[o])
                  ELSE single_photon(input.v, LP_angle[o] + PiHalf)

\* observer.copy_photon(input, result): the new photon joins the objects
copy_photon(o, id, result) ==
    /\ objs' = Append(objs, copied_photon(o, objs[id], result))
    /\ ret' = Returned("copy_photon", o, <<id, result>>, Len(objs) + 1)
    /\ UNCHANGED obsVars

\* observer.reset_recording
reset_recording(o) ==
    /\ angle_recording' = [angle_recording EXCEPT ![o] = <<>>]
    /\ result_recording' = [result_recording EXCEPT ![o] = <<>>]
    /\ observed' = [observed EXCEPT ![o] = 0]
    /\ ret' = Returned("reset_recording", o, NoAttr, NoAttr)
    /\ UNCHANGED <<objs, LP_angle, angle_choices>>

-----------------------------------------------------------------------------
(* The free-running specification: a session of any calls on the classes *)

Init ==
    /\ objs = <<>>
    /\ InitObservers
    /\ N = 0
    /\ ret = Returned("init", "none", NoAttr, NoAttr)
    /\ calls = 0
    /\ pc = "free"
    /\ trial = 0

Called ==
    /\ calls < MaxCalls
    /\ calls' = calls + 1
    /\ UNCHANGED <<N, pc, trial>>

NewSinglePhoton ==
    /\ \E v \in Freqs, angle \in PhotonAngles :
         objs' = Append(objs, single_photon(v, angle))
    /\ ret' = Returned("single_photon", "none", NoAttr, Len(objs) + 1)
    /\ UNCHANGED obsVars
    /\ Called

NewEntangledQubit ==
    /\ \E v \in Freqs : objs' = Append(objs, entangled_qubit(v, 0))
    /\ ret' = Returned("entangled_qubit", "none", NoAttr, Len(objs) + 1)
    /\ UNCHANGED obsVars
    /\ Called

Observe ==
    /\ \E o \in FreeObservers, id \in 1..Len(objs) : observe(o, id)
    /\ Called

CopyPhoton ==
    /\ \E o \in FreeObservers, id \in 1..Len(objs), result \in {0, 1} :
         copy_photon(o, id, result)
    /\ Called

SetAngleChoices ==
    /\ \E o \in FreeObservers, choices \in ChoiceLists :
         set_angle_choices(o, choices)
    /\ Called

ResetRecording ==
    /\ \E o \in FreeObservers : reset_recording(o)
    /\ Called

Next ==
    \/ NewSinglePhoton
    \/ NewEntangledQubit
    \/ Observe
    \/ CopyPhoton
    \/ SetAngleChoices
    \/ ResetRecording

Spec == Init /\ [][Next]_vars

-----------------------------------------------------------------------------
(* The measurement specification: measured() called on entangled qubits *)

QubitNew ==
    /\ Len(objs) < MaxQubits
    /\ \E v \in Freqs : objs' = Append(objs, entangled_qubit(v, 0))
    /\ ret' = Returned("entangled_qubit", "none", NoAttr, Len(objs) + 1)
    /\ UNCHANGED <<obsVars, N, calls, pc, trial>>

QubitMeasured ==
    /\ \E id \in 1..Len(objs), polarizer_angle \in BasisAngles :
         /\ objs[id].measures < MaxMeasures
         /\ \E m \in qubit_measured(objs[id], polarizer_angle) :
              /\ objs' = [objs EXCEPT ![id] = m[1]]
              /\ ret' = Returned("measured", id, polarizer_angle, m[2])
    /\ UNCHANGED <<obsVars, N, calls, pc, trial>>

NextQubit == QubitNew \/ QubitMeasured

SpecQubit == Init /\ [][NextQubit]_vars

-----------------------------------------------------------------------------
(* Analysis: correlation_test, compare_results, eavesdropping_test *)

\* observer.present_recording: row 1 the angles, row 2 the results
present_recording(o) == <<angle_recording[o], result_recording[o]>>

\* matching_idx without the test on the basis difference
matching_idx_all(seq_1, seq_2, angle_diff, n) == [i \in 1..n |-> i]

\* the i of range(n) that correlation_test keeps, counted from 1
matching_idx(seq_1, seq_2, angle_diff, n) ==
    SelectSeq([i \in 1..n |-> i],
              LAMBDA i : Abs(seq_1[1][i] - seq_2[1][i]) = angle_diff)

\* [seq[1,i] for i in idx]
sub_seq(seq, idx) == [k \in 1..Len(idx) |-> seq[2][idx[k]]]

\* scipy pearsonr(x, y) for len(x) = len(y) >= 2, in units of 1e-3, truncated;
\* NaN for a constant input
pearsonr(x, y) ==
    LET n   == Len(x)
        sx  == SumSeq(x)
        sy  == SumSeq(y)
        sxy == SumSeq([k \in 1..n |-> x[k] * y[k]])
        sxx == SumSeq([k \in 1..n |-> x[k] * x[k]])
        syy == SumSeq([k \in 1..n |-> y[k] * y[k]])
        num == n * sxy - sx * sy
        dx  == n * sxx - sx * sx
        dy  == n * syy - sy * sy
    IN IF dx = 0 \/ dy = 0 THEN NaN
       ELSE LET mag == SqrtBetween((CorrOne * CorrOne * num * num) \div (dx * dy),
                                   0, CorrOne)
            IN IF num < 0 THEN 0 - mag ELSE mag

\* abs(exp_correlation - math.cos(2*angle_diff))
thy_diff(exp_correlation, angle_diff) ==
    IF exp_correlation = NaN THEN NaN
    ELSE Abs(exp_correlation - Cos2x(angle_diff))

\* observer.correlation_test(seq_1, seq_2, angle_diff) with the module-level N n
correlation_test(seq_1, seq_2, angle_diff, n) ==
    IF n > Len(seq_1[1]) \/ n > Len(seq_2[1])
    THEN \* seq_1[0,i] or seq_2[0,i] is out of bounds for some i in range(N)
         [err |-> "IndexError"]
    ELSE LET idx       == matching_idx(seq_1, seq_2, angle_diff, n)
             sub_seq_1 == sub_seq(seq_1, idx)
             sub_seq_2 == sub_seq(seq_2, idx)
         IN IF Len(idx) < 2
            THEN \* pearsonr: x and y must have length at least 2
                 [err |-> "ValueError", idx |-> idx,
                  sub_seq_1 |-> sub_seq_1, sub_seq_2 |-> sub_seq_2]
            ELSE LET exp_correlation == pearsonr(sub_seq_1, sub_seq_2)
                 IN [err |-> "none", idx |-> idx,
                     exp_correlation |-> exp_correlation,
                     exp_thy_diff |-> thy_diff(exp_correlation, angle_diff),
                     sub_seq_1 |-> sub_seq_1, sub_seq_2 |-> sub_seq_2]

\* observer.compare_results(person)
compare_results(o, person) ==
    LET t == correlation_test(present_recording(o), present_recording(person), 0, N)
    IN ret' = t @@ [op |-> "compare_results", who |-> o, angle_diff |-> 0]

\* the loop of eavesdropping_test: the exp_thy_diff of each test angle in turn,
\* up to the first correlation_test that raises
thy_diff_list(o, person, test_angle) ==
    LET tests == [k \in 1..Len(test_angle) |->
                    correlation_test(present_recording(o), present_recording(person),
                                     test_angle[k], N)]
        raising == {k \in 1..Len(test_angle) : tests[k].err # "none"}
    IN IF raising = {}
       THEN [err |-> "none",
             list |-> [k \in 1..Len(test_angle) |-> tests[k].exp_thy_diff]]
       ELSE LET first == CHOOSE k \in raising : \A m \in raising : k <= m
            IN [err |-> tests[first].err,
                list |-> [k \in 1..(first - 1) |-> tests[k].exp_thy_diff]]

\* the 0.1 of eavesdropping_test
Threshold == CorrOne \div 10

\* mean_exceeds with the sum in place of the mean
sum_exceeds(exp_thy_diff_list) ==
    /\ \A k \in 1..Len(exp_thy_diff_list) : exp_thy_diff_list[k] # NaN
    /\ SumSeq(exp_thy_diff_list) > Threshold

\* statistics.mean(exp_thy_diff_list) > 0.1, for a non-empty list; a mean that
\* is not a number is not greater than anything
mean_exceeds(exp_thy_diff_list) ==
    /\ \A k \in 1..Len(exp_thy_diff_list) : exp_thy_diff_list[k] # NaN
    /\ SumSeq(exp_thy_diff_list) > Threshold * Len(exp_thy_diff_list)

\* observer.eavesdropping_test(person, test_angle); printed says whether
\* 'someone is eavesdropping...!' was printed
eavesdropping_test(o, person, test_angle) ==
    LET l == thy_diff_list(o, person, test_angle)
    IN ret' =
         IF l.err # "none"
         THEN [op |-> "eavesdropping_test", who |-> o, err |-> l.err,
               test_angle |-> test_angle, exp_thy_diff_list |-> l.list,
               printed |-> FALSE]
         ELSE IF l.list = <<>>
         THEN \* statistics.mean of no data
              [op |-> "eavesdropping_test", who |-> o, err |-> "StatisticsError",
               test_angle |-> test_angle, exp_thy_diff_list |-> l.list,
               printed |-> FALSE]
         ELSE [op |-> "eavesdropping_test", who |-> o, err |-> "none",
               test_angle |-> test_angle, exp_thy_diff_list |-> l.list,
               printed |-> mean_exceeds(l.list)]

-----------------------------------------------------------------------------
(* The analysis specification: one analysis call on two recordings *)

\* the recordings of length len over the given angles
Recordings(len, angles) ==
    { <<a, r>> : a \in [1..len -> angles], r \in [1..len -> {0, 1}] }

\* Alice and Bob after a run of len trials each, with recordings ra and rb;
\* Eve as constructed
AfterRun(len, ra, rb) ==
    /\ angle_recording = [o \in Observers |->
           IF o = "Alice" THEN ra[1] ELSE IF o = "Bob" THEN rb[1] ELSE <<>>]
    /\ result_recording = [o \in Observers |->
           IF o = "Alice" THEN ra[2] ELSE IF o = "Bob" THEN rb[2] ELSE <<>>]
    /\ LP_angle = [o \in Observers |->
           IF len = 0 \/ o = "Eve" THEN 0
           ELSE IF o = "Alice" THEN ra[1][len] ELSE rb[1][len]]
    /\ observed = [o \in Observers |-> IF o = "Eve" THEN 0 ELSE len]
    /\ angle_choices = [o \in Observers |->
           IF o = "Eve" THEN DefaultChoices ELSE E91Choices]
    /\ objs = <<>>
    /\ ret = Returned("init", "none", NoAttr, NoAttr)
    /\ calls = 0
    /\ pc = "analysis"
    /\ trial = 0

\* recordings of up to MaxLen trials, and any trial count N up to MaxN
InitCorr ==
    /\ \E len \in 0..MaxLen :
         \E ra \in Recordings(len, AliceAngles), rb \in Recordings(len, BobAngles) :
           AfterRun(len, ra, rb)
    /\ N \in 0..MaxN

CorrelationTest ==
    /\ pc = "analysis"
    /\ \E angle_diff \in 0..3 :
         LET t == correlation_test(present_recording("Alice"),
                                   present_recording("Bob"), angle_diff, N)
         IN ret' = t @@ [op |-> "correlation_test", who |-> "Alice",
                         angle_diff |-> angle_diff]
    /\ pc' = "analysed"
    /\ UNCHANGED <<objs, obsVars, N, calls, trial>>

EavesdroppingTest ==
    /\ pc = "analysis"
    /\ \E test_angle \in TestAngleLists :
         eavesdropping_test("Alice", "Bob", test_angle)
    /\ pc' = "analysed"
    /\ UNCHANGED <<objs, obsVars, N, calls, trial>>

NextCorr == CorrelationTest \/ EavesdroppingTest

SpecCorr == InitCorr /\ [][NextCorr]_vars

-----------------------------------------------------------------------------
(* The eavesdropping specification: eavesdropping_test after a run of N trials *)

\* recordings of up to MaxRun trials, N the number of trials
InitEaves ==
    \E len \in 0..MaxRun :
      /\ \E ra \in Recordings(len, RunAliceAngles),
            rb \in Recordings(len, RunBobAngles) : AfterRun(len, ra, rb)
      /\ N = len

RunEavesdroppingTest ==
    /\ pc = "analysis"
    /\ \E test_angle \in RunTestAngleLists :
         eavesdropping_test("Alice", "Bob", test_angle)
    /\ pc' = "analysed"
    /\ UNCHANGED <<objs, obsVars, N, calls, trial>>

RunCompareResults ==
    /\ pc = "analysis"
    /\ compare_results("Alice", "Bob")
    /\ pc' = "analysed"
    /\ UNCHANGED <<objs, obsVars, N, calls, trial>>

NextEaves == RunEavesdroppingTest \/ RunCompareResults

SpecEaves == InitEaves /\ [][NextEaves]_vars

-----------------------------------------------------------------------------
(* The E91 scenario of the script, lines 181-195; pc is the line to run next *)

InitE91 ==
    /\ objs = <<>>
    /\ InitObservers
    /\ N = 0
    /\ ret = Returned("init", "none", NoAttr, NoAttr)
    /\ calls = 0
    /\ pc = "182"
    /\ trial = 0

\* Alice, Bob and Eve are given polarizer_angle_choices in turn
E91SetAngleChoices ==
    /\ \E o \in Observers :
         /\ pc = (CASE o = "Alice" -> "182" [] o = "Bob" -> "183" [] o = "Eve" -> "184")
         /\ pc' = (CASE o = "Alice" -> "183" [] o = "Bob" -> "184" [] o = "Eve" -> "186")
         /\ set_angle_choices(o, E91Choices)
    /\ UNCHANGED <<N, calls, trial>>

\* N = 1000, here any trial count up to MaxTrials
E91SetN ==
    /\ pc = "186"
    /\ N' \in 0..MaxTrials
    /\ trial' = 0
    /\ pc' = "187"
    /\ UNCHANGED <<objs, obsVars, ret, calls>>

\* for i in range(N): qubit = entangled_qubit(v, 0)
E91NewQubit ==
    /\ pc = "187"
    /\ trial < N
    /\ objs' = Append(objs, entangled_qubit("v", 0))
    /\ ret' = Returned("entangled_qubit", "none", NoAttr, Len(objs) + 1)
    /\ pc' = "190"
    /\ UNCHANGED <<obsVars, N, calls, trial>>

\* Alice.observe(qubit)
E91AliceObserve ==
    /\ pc = "190"
    /\ observe("Alice", Len(objs))
    /\ pc' = "191"
    /\ UNCHANGED <<N, calls, trial>>

\* Bob.observe(qubit), and the loop goes on
E91BobObserve ==
    /\ pc = "191"
    /\ observe("Bob", Len(objs))
    /\ pc' = "187"
    /\ trial' = trial + 1
    /\ UNCHANGED <<N, calls>>

\* key, _, _ = Alice.compare_results(Bob); an exception ends the script
E91CompareResults ==
    /\ pc = "187"
    /\ trial >= N
    /\ compare_results("Alice", "Bob")
    /\ pc' = IF ret'.err = "none" THEN "195" ELSE "aborted"
    /\ UNCHANGED <<objs, obsVars, N, calls, trial>>

\* Alice.eavesdropping_test(Bob, [math.pi/8, 3*math.pi/8])
E91EavesdroppingTest ==
    /\ pc = "195"
    /\ eavesdropping_test("Alice", "Bob", <<1, 3>>)
    /\ pc' = IF ret'.err = "none" THEN "196" ELSE "aborted"
    /\ UNCHANGED <<objs, obsVars, N, calls, trial>>

NextE91 ==
    \/ E91SetAngleChoices
    \/ E91SetN
    \/ E91NewQubit
    \/ E91AliceObserve
    \/ E91BobObserve
    \/ E91CompareResults
    \/ E91EavesdroppingTest

SpecE91 == InitE91 /\ [][NextE91]_vars

-----------------------------------------------------------------------------
(* Properties *)

Range(seq) == { seq[k] : k \in 1..Len(seq) }

Last(seq) == seq[Len(seq)]

Constant(seq) == \A k \in 1..Len(seq) : seq[k] = seq[1]

\* C1: a measured() call on a qubit that has already been measured twice raises
\* ProtocolError and returns no outcome.
C1_ThirdMeasureRaises ==
    (ret.op = "measured" /\ objs[ret.who].measures >= 3)
        => (ret.err = "ProtocolError" /\ ret.value = NoAttr)

\* C2: when the second measurement of a qubit uses the basis angle of the first,
\* it returns the outcome of the first.
C2_SameBasisSameOutcome ==
    (ret.op = "measured" /\ objs[ret.who].measures = 2
                         /\ ret.arg = objs[ret.who].alpha)
        => (ret.err = "none" /\ ret.value = objs[ret.who].a)

\* a second measurement in the first basis, pi/8 or more from the axis, after a
\* first outcome of 0
C2_Witness ==
    /\ ret.op = "measured"
    /\ objs[ret.who].measures = 2
    /\ ret.arg = objs[ret.who].alpha
    /\ ret.arg # 0
    /\ objs[ret.who].a = 0

\* every qubit is untouched exactly until its first measurement, which leaves it
\* collapsed with that call's angle and outcome stored
C4_FirstMeasurement ==
    \A id \in 1..Len(objs) :
        /\ objs[id].status \in {"untouched", "collapsed"}
        /\ objs[id].status = "untouched" <=> objs[id].measures = 0
        /\ (ret.op = "measured" /\ ret.who = id /\ objs[id].measures = 1)
               => /\ objs[id].status = "collapsed"
                  /\ objs[id].alpha = ret.arg
                  /\ objs[id].a = ret.value

\* no step takes a collapsed qubit back or changes its first angle or outcome
C4_NoWayBack ==
    \A id \in 1..Len(objs) :
        objs[id].status = "collapsed"
            => /\ objs'[id].status = "collapsed"
               /\ objs'[id].alpha = objs[id].alpha
               /\ objs'[id].a = objs[id].a

\* C4: a qubit starts untouched; its first measurement moves it to collapsed and
\* stores that call's angle and outcome; no later measurement returns it to
\* untouched or changes the stored angle and outcome.
C4_CollapseIsFinal == []C4_FirstMeasurement /\ [][C4_NoWayBack]_vars

\* a third measurement, in another basis than the first
C4_Witness ==
    /\ ret.op = "measured"
    /\ objs[ret.who].measures = 3
    /\ ret.arg # objs[ret.who].alpha
    /\ objs[ret.who].status = "collapsed"

\* C8: set_angle_choices with an empty list raises ProtocolError and leaves the
\* observer's choices as they were, so no observer ever holds an empty pool and
\* no observe call runs into one.
C8_EmptyChoicesRejected ==
    /\ (ret.op = "set_angle_choices" /\ ret.arg = <<>>) => ret.err = "ProtocolError"
    /\ \A o \in Observers : angle_choices[o] # <<>>
    /\ ~(ret.op = "observe" /\ ret.err = "IndexError")

\* the two rows of every recording have the length of the number of observe
\* calls since the last reset; after an observe call the last pair is the
\* polarizer's angle, one of the observer's choices, and the outcome returned
C9_Recorded ==
    /\ \A o \in Observers :
          /\ Len(angle_recording[o]) = observed[o]
          /\ Len(result_recording[o]) = observed[o]
    /\ (ret.op = "observe" /\ ret.err = "none")
          => /\ angle_recording[ret.who] # <<>>
             /\ Last(angle_recording[ret.who]) = LP_angle[ret.who]
             /\ LP_angle[ret.who] \in Range(angle_choices[ret.who])
             /\ Last(result_recording[ret.who]) = ret.value

\* an observe call appends one pair to its observer's recording and touches no
\* other recording; only observe and reset_recording change a recording
C9_AppendsOnePair ==
    /\ (ret'.op = "observe" /\ ret'.err = "none")
          => /\ angle_recording'[ret'.who] =
                    Append(angle_recording[ret'.who], LP_angle'[ret'.who])
             /\ result_recording'[ret'.who] =
                    Append(result_recording[ret'.who], ret'.value)
             /\ observed'[ret'.who] = observed[ret'.who] + 1
             /\ \A p \in Observers \ {ret'.who} :
                    /\ angle_recording'[p] = angle_recording[p]
                    /\ result_recording'[p] = result_recording[p]
    /\ ~(ret'.op = "observe" /\ ret'.err = "none")
          => \A p \in Observers :
                \/ /\ angle_recording'[p] = angle_recording[p]
                   /\ result_recording'[p] = result_recording[p]
                \/ /\ ret'.op = "reset_recording"
                   /\ ret'.who = p
                   /\ angle_recording'[p] = <<>>
                   /\ result_recording'[p] = <<>>

\* C9: each observe call of an observer with choices sets the polarizer to one of
\* them and appends exactly that angle and the returned outcome to the observer's
\* recording, leaving the earlier pairs and the other observers' recordings as
\* they were; the two rows of a recording have equal length, the number of
\* observe calls since the last reset.
C9_ObserveRecords == []C9_Recorded /\ [][C9_AppendsOnePair]_vars

\* a second pair appended while another observer holds a recording
C9_Witness ==
    /\ ret.op = "observe"
    /\ ret.err = "none"
    /\ Len(angle_recording[ret.who]) = 2
    /\ \E p \in Observers \ {ret.who} : angle_recording[p] # <<>>

\* the polarizer of an observer with a recording stands at the last recorded angle
C10_LastUsedAngle ==
    \A o \in Observers :
        angle_recording[o] # <<>> => LP_angle[o] = Last(angle_recording[o])

\* copy_photon adds one fresh single photon and changes nothing else
C10_CopyStep ==
    ret'.op = "copy_photon"
      => LET o      == ret'.who
             input  == objs[ret'.arg[1]]
             result == ret'.arg[2]
             new    == objs'[ret'.value]
         IN /\ ret'.value = Len(objs) + 1
            /\ Len(objs') = Len(objs) + 1
            /\ new.kind = "single_photon"
            /\ new.angle = IF result = 1 THEN LP_angle[o] ELSE LP_angle[o] + PiHalf
            /\ new.v = input.v
            /\ new.measures = 0
            /\ \A i \in 1..Len(objs) : objs'[i] = objs[i]
            /\ UNCHANGED <<LP_angle, angle_choices, angle_recording,
                           result_recording>>

\* C10: copy_photon returns a new single photon polarized along the observer's
\* last-used basis angle for the outcome 1 and along that angle plus pi/2 for the
\* outcome 0, with the input's v; the input and the recordings do not change.
C10_CopyPhoton == []C10_LastUsedAngle /\ [][C10_CopyStep]_vars

\* Eve, her polarizer off the axis, copies a collapsed qubit of frequency w
\* after an outcome of 0
C10_Witness ==
    /\ ret.op = "copy_photon"
    /\ ret.arg[2] = 0
    /\ objs[ret.arg[1]].status = "collapsed"
    /\ objs[ret.arg[1]].v = "w"
    /\ LP_angle[ret.who] # 0
    /\ objs[ret.value].angle = LP_angle[ret.who] + PiHalf

\* C3: in the E91 run without an eavesdropper, at every trial where Alice and
\* Bob recorded the same basis angle they recorded the same outcome, and the two
\* subsequences compare_results selects (Alice's key and Bob's) are equal.
C3_SharedKey ==
    /\ \A i \in 1..Len(angle_recording["Bob"]) :
          angle_recording["Alice"][i] = angle_recording["Bob"][i]
             => result_recording["Alice"][i] = result_recording["Bob"][i]
    /\ (ret.op = "compare_results" /\ ret.err # "IndexError")
          => ret.sub_seq_1 = ret.sub_seq_2

\* compare_results returns a key of two different bits
C3_Witness ==
    /\ ret.op = "compare_results"
    /\ ret.err = "none"
    /\ Len(ret.sub_seq_1) = 2
    /\ ret.sub_seq_1[1] # ret.sub_seq_1[2]

\* C5: correlation_test selects the outcomes at all indices of the recordings
\* where the basis angles differ by angle_diff, whatever the trial count N is.
C5_SelectsAllMatching ==
    ret.op = "correlation_test"
      => LET seq_1 == present_recording("Alice")
             seq_2 == present_recording("Bob")
             all   == matching_idx(seq_1, seq_2, ret.angle_diff, Len(seq_1[1]))
         IN /\ ret.err # "IndexError"
            /\ ret.idx = all
            /\ ret.sub_seq_1 = sub_seq(seq_1, all)
            /\ ret.sub_seq_2 = sub_seq(seq_2, all)

\* the deviation from theory of the outcomes matched over the whole recordings
DeviationFromTheory(angle_diff) ==
    LET seq_1 == present_recording("Alice")
        seq_2 == present_recording("Bob")
        all   == matching_idx(seq_1, seq_2, angle_diff, Len(seq_1[1]))
    IN thy_diff(pearsonr(sub_seq(seq_1, all), sub_seq(seq_2, all)), angle_diff)

\* C6: eavesdropping_test computes the deviation from theory for every test
\* angle and prints its warning if and only if the mean of the deviations is
\* greater than 0.1; it never prints when every deviation is at most 0.1.
C6_FlagsOnMean ==
    (ret.op = "eavesdropping_test" /\ ret.err = "none")
      => LET list == ret.exp_thy_diff_list
             defined == \A k \in 1..Len(list) : list[k] # NaN
         IN /\ Len(list) = Len(ret.test_angle)
            /\ \A k \in 1..Len(list) :
                  list[k] = DeviationFromTheory(ret.test_angle[k])
            /\ ret.printed <=>
                  (defined /\ SumSeq(list) > Threshold * Len(list))
            /\ (defined /\ \A k \in 1..Len(list) : list[k] <= Threshold)
                  => ~ret.printed

\* the warning is printed for two deviations of which one is below 0.1
C6_Witness ==
    /\ ret.op = "eavesdropping_test"
    /\ ret.err = "none"
    /\ ret.printed
    /\ Len(ret.exp_thy_diff_list) = 2
    /\ \E k \in 1..2 : ret.exp_thy_diff_list[k] <= Threshold
    /\ \A k \in 1..2 : ret.exp_thy_diff_list[k] # NaN

\* C7: a correlation over fewer than 2 matched outcomes, or over outcomes that
\* are all equal on one side, raises an error; no correlation, deviation or
\* verdict comes out of it.
C7_DegenerateSampleRaises ==
    /\ (ret.op = "correlation_test" /\ ret.err # "IndexError"
           /\ (\/ Len(ret.sub_seq_1) < 2
               \/ Constant(ret.sub_seq_1)
               \/ Constant(ret.sub_seq_2)))
          => ret.err # "none"
    /\ (ret.op = "eavesdropping_test" /\ ret.err = "none")
          => \A k \in 1..Len(ret.exp_thy_diff_list) :
                ret.exp_thy_diff_list[k] # NaN

====
